---------------------------- MODULE Spec2Model ----------------------------
(***************************************************************************)
(* The HTTP forwarding proxy of function_app.py: the allowlist matcher     *)
(* (compile_patterns, is_allowed) and the two forwarding handlers          *)
(* (proxy_function, odata_proxy_function).                                 *)
(*                                                                         *)
(* A Python str is a sequence of one-character strings, so that prefix     *)
(* tests, splitting, lower-casing, escaping and regular-expression         *)
(* matching are computed character by character as the code computes them. *)
(* None is the one-element sequence NoneV, which no str equals.            *)
(***************************************************************************)
EXTENDS Integers, Sequences, FiniteSets, TLC

VARIABLES
    ALLOWED_PATTERNS, \* the configured allowlist (a sequence of patterns)
    pc,               \* where the current request is in its handler
    route,            \* "proxy" or "odata": which handler serves the request
    endpoint,         \* req.route_params.get('endpoint'): a str or None
    params,           \* req.params: an ordered dict, a sequence of <<key, value>>
    in_headers,       \* req.headers, as the handler iterates over them
    target_url,       \* the handler's local target_url (None until resolved)
    checked,          \* what is_allowed did: its verdict and the domain it compared
    method,           \* req.method.upper() (None until read)
    headers,          \* the handler's outbound headers dict
    body,             \* the handler's local body
    call,             \* the arguments of the requests.request call, once issued
    calls,            \* how many times requests.request was called for this request
    response,         \* the func.HttpResponse returned (kind "none" until then)
    responses,        \* how many responses were returned for this request
    raised,           \* what was raised while handling this request
    trail,            \* the stages this request has entered, in order
    mhost,            \* matcher check: the host string handed to is_allowed
    mresult           \* matcher check: is_allowed's answer ("unset" until applied)

vars == <<ALLOWED_PATTERNS, pc, route, endpoint, params, in_headers, target_url,
          checked, method, headers, body, call, calls, response, responses,
          raised, trail, mhost, mresult>>

-----------------------------------------------------------------------------
(* Strings *)

NoneV == <<"<None>">>

UpperLetters == <<"A","B","C","D","E","F","G","H","I","J","K","L","M",
                  "N","O","P","Q","R","S","T","U","V","W","X","Y","Z">>
LowerLetters == <<"a","b","c","d","e","f","g","h","i","j","k","l","m",
                  "n","o","p","q","r","s","t","u","v","w","x","y","z">>
Digits == {"0","1","2","3","4","5","6","7","8","9"}

IsUpper(c) == \E i \in 1..26 : UpperLetters[i] = c
IsLower(c) == \E i \in 1..26 : LowerLetters[i] = c
IsAlpha(c) == IsUpper(c) \/ IsLower(c)

\* str.lower() on one character (ASCII)
LowerChar(c) ==
    IF IsUpper(c) THEN LowerLetters[CHOOSE i \in 1..26 : UpperLetters[i] = c] ELSE c

\* str.lower()
LowerStr(s) == [i \in 1..Len(s) |-> LowerChar(s[i])]

Contains(s, c) == \E i \in 1..Len(s) : s[i] = c

\* the first index >= from at which s holds a character of cs; Len(s)+1 when none
FirstOf(s, cs, from) ==
    IF \E i \in from..Len(s) : s[i] \in cs
    THEN CHOOSE i \in from..Len(s) : s[i] \in cs /\ \A j \in from..(i-1) : s[j] \notin cs
    ELSE Len(s) + 1

\* s.split(c)[0]
BeforeFirst(s, c) == SubSeq(s, 1, FirstOf(s, {c}, 1) - 1)

\* s.startswith(p)
StartsWith(s, p) == Len(s) >= Len(p) /\ SubSeq(s, 1, Len(p)) = p

HTTP == <<"h", "t", "t", "p">>
HTTPS == <<"h", "t", "t", "p", "s">>
SchemeSep == <<":", "/", "/">>
HttpPrefix == HTTP \o SchemeSep
HttpsPrefix == HTTPS \o SchemeSep

-----------------------------------------------------------------------------
(* compile_patterns: re.escape, the replacement of \* by .*, the anchors,  *)
(* re.compile with re.IGNORECASE                                           *)

\* the characters re.escape puts a backslash before
ReSpecialChars == {"(", ")", "[", "]", "{", "}", "?", "*", "+", "-", "|", "^",
                   "$", "\\", ".", "&", "~", "#", " ", "\n"}

RECURSIVE EscapeWith(_, _)
EscapeWith(special, s) ==
    IF s = <<>> THEN <<>>
    ELSE (IF Head(s) \in special THEN <<"\\", Head(s)>> ELSE <<Head(s)>>)
         \o EscapeWith(special, Tail(s))

\* a slip a hand-written escape would make: the dot is left unescaped
re_escape_dot_unescaped(s) == EscapeWith(ReSpecialChars \ {"."}, s)

re_escape(s) == EscapeWith(ReSpecialChars, s)

\* s.replace(r"\*", ".*"): left to right, non-overlapping
RECURSIVE replace_star(_)
replace_star(s) ==
    IF Len(s) < 2 THEN s
    ELSE IF s[1] = "\\" /\ s[2] = "*"
         THEN <<".", "*">> \o replace_star(SubSeq(s, 3, Len(s)))
         ELSE <<s[1]>> \o replace_star(Tail(s))

\* re.compile: the regular expression's text read into tokens. The texts
\* compile_patterns produces hold anchors, literals, escaped literals, dots
\* and the pair ".*".
RECURSIVE re_compile(_)
re_compile(r) ==
    IF r = <<>> THEN <<>>
    ELSE IF r[1] = "\\" /\ Len(r) >= 2
         THEN <<<<"lit", r[2]>>>> \o re_compile(SubSeq(r, 3, Len(r)))
    ELSE IF r[1] = "." /\ Len(r) >= 2 /\ r[2] = "*"
         THEN <<<<"anystar", "">>>> \o re_compile(SubSeq(r, 3, Len(r)))
    ELSE IF r[1] = "." THEN <<<<"any", "">>>> \o re_compile(Tail(r))
    ELSE IF r[1] = "^" THEN <<<<"bol", "">>>> \o re_compile(Tail(r))
    ELSE IF r[1] = "$" THEN <<<<"eol", "">>>> \o re_compile(Tail(r))
    ELSE <<<<"lit", r[1]>>>> \o re_compile(Tail(r))

compile_pattern(pattern) ==
    re_compile(<<"^">> \o replace_star(re_escape(pattern)) \o <<"$">>)

compile_patterns(patterns) ==
    [i \in 1..Len(patterns) |-> compile_pattern(patterns[i])]

\* regex.match(s) from token k at position i of s, under re.IGNORECASE: "."
\* matches any character but a newline, "$" matches at the end and before a
\* final newline, match() need not consume the whole of s.
RECURSIVE re_match_at(_, _, _, _)
re_match_at(toks, k, s, i) ==
    IF k > Len(toks) THEN TRUE
    ELSE LET t == toks[k] IN
         CASE t[1] = "bol" -> i = 1 /\ re_match_at(toks, k + 1, s, i)
           [] t[1] = "eol" ->
                 /\ i = Len(s) + 1 \/ (i = Len(s) /\ s[i] = "\n")
                 /\ re_match_at(toks, k + 1, s, i)
           [] t[1] = "lit" ->
                 /\ i <= Len(s)
                 /\ LowerChar(s[i]) = LowerChar(t[2])
                 /\ re_match_at(toks, k + 1, s, i + 1)
           [] t[1] = "any" ->
                 /\ i <= Len(s)
                 /\ s[i] # "\n"
                 /\ re_match_at(toks, k + 1, s, i + 1)
           [] t[1] = "anystar" ->
                 \E j \in i..(Len(s) + 1) :
                     /\ \A m \in i..(j - 1) : s[m] # "\n"
                     /\ re_match_at(toks, k + 1, s, j)

re_match(toks, s) == re_match_at(toks, 1, s, 1)

\* REGEX_PATTERNS = compile_patterns(ALLOWED_PATTERNS)
REGEX_PATTERNS == compile_patterns(ALLOWED_PATTERNS)

-----------------------------------------------------------------------------
(* is_allowed: urlparse, the domain it compares, the loop over the regexes *)

SchemeChars == {UpperLetters[i] : i \in 1..26} \cup {LowerLetters[i] : i \in 1..26}
               \cup Digits \cup {"+", "-", "."}

\* urllib.parse.urlparse, as far as is_allowed reads it: netloc and path, and
\* the ValueError ("Invalid IPv6 URL") for a netloc with one bracket only
urlparse(url) ==
    LET i == FirstOf(url, {":"}, 1)
        hasScheme == /\ i > 1
                     /\ i <= Len(url)
                     /\ IsAlpha(url[1])
                     /\ \A j \in 1..(i - 1) : url[j] \in SchemeChars
        rest == IF hasScheme THEN SubSeq(url, i + 1, Len(url)) ELSE url
        hasNet == Len(rest) >= 2 /\ rest[1] = "/" /\ rest[2] = "/"
        d == FirstOf(rest, {"/", "?", "#"}, 3)
        netloc == IF hasNet THEN SubSeq(rest, 3, d - 1) ELSE <<>>
        rest2 == IF hasNet THEN SubSeq(rest, d, Len(rest)) ELSE rest
    IN  [error  |-> hasNet /\ (Contains(netloc, "[") # Contains(netloc, "]")),
         scheme |-> IF hasScheme THEN LowerStr(SubSeq(url, 1, i - 1)) ELSE <<>>,
         netloc |-> netloc,
         path   |-> BeforeFirst(BeforeFirst(rest2, "#"), "?")]

\* whether is_allowed(endpoint) raises (urlparse's ValueError)
is_allowed_raises(url) == urlparse(url).error

\* is_allowed's local domain when the loop starts
is_allowed_domain(url) ==
    LET parsed == urlparse(url)
        domain == IF parsed.netloc # <<>> THEN parsed.netloc
                  ELSE BeforeFirst(parsed.path, "/")
    IN  IF Contains(domain, ":") THEN BeforeFirst(domain, ":") ELSE domain

\* for regex in regexes: if regex.match(domain): return True; return False
match_any(regexes, domain) == \E k \in 1..Len(regexes) : re_match(regexes[k], domain)

is_allowed(url) == match_any(REGEX_PATTERNS, is_allowed_domain(url))

-----------------------------------------------------------------------------
(* The values the handlers exchange *)

PROXY_SCHEME == <<"_", "_", "p", "r", "o", "x", "y", "_", "s", "c", "h", "e", "m", "e">>

\* dict.get(key) on an ordered dict kept as a sequence of <<key, value>>
dict_get(d, k) ==
    IF \E i \in 1..Len(d) : d[i][1] = k
    THEN d[CHOOSE i \in 1..Len(d) : d[i][1] = k][2]
    ELSE NoneV

\* the characters urllib.parse.quote_plus leaves as they are
QuoteSafe == {UpperLetters[i] : i \in 1..26} \cup {LowerLetters[i] : i \in 1..26}
             \cup Digits \cup {"_", ".", "-", "~"}

\* quote_plus on one character
quote_char(c) ==
    IF c \in QuoteSafe THEN <<c>>
    ELSE CASE c = " " -> <<"+">>
           [] c = "/" -> <<"%", "2", "F">>
           [] c = ":" -> <<"%", "3", "A">>
           [] c = "?" -> <<"%", "3", "F">>
           [] c = "&" -> <<"%", "2", "6">>
           [] c = "=" -> <<"%", "3", "D">>
           [] c = "@" -> <<"%", "4", "0">>
           [] c = "#" -> <<"%", "2", "3">>

RECURSIVE quote_plus(_)
quote_plus(s) == IF s = <<>> THEN <<>> ELSE quote_char(Head(s)) \o quote_plus(Tail(s))

\* urllib.parse.urlencode of an ordered dict
RECURSIVE urlencode(_)
urlencode(q) ==
    IF q = <<>> THEN <<>>
    ELSE quote_plus(q[1][1]) \o <<"=">> \o quote_plus(q[1][2])
         \o (IF Len(q) > 1 THEN <<"&">> \o urlencode(Tail(q)) ELSE <<>>)

\* target_url += delimiter + urlencode(query_params), when query_params is not empty
merge_query(url, q) ==
    IF q = <<>> THEN url
    ELSE url \o (IF Contains(url, "?") THEN <<"&">> ELSE <<"?">>) \o urlencode(q)

\* header names
H_Host == <<"H", "o", "s", "t">>
H_XCustom == <<"X", "-", "C", "u", "s", "t", "o", "m">>
H_ACCEPT == <<"A", "C", "C", "E", "P", "T">>
H_content_type == <<"c", "o", "n", "t", "e", "n", "t", "-", "t", "y", "p", "e">>
H_ODataVersion == <<"O", "D", "a", "t", "a", "-", "V", "e", "r", "s", "i", "o", "n">>
H_odata_version == <<"o", "d", "a", "t", "a", "-", "v", "e", "r", "s", "i", "o", "n">>
H_Accept == <<"A", "c", "c", "e", "p", "t">>
H_ContentType == <<"C", "o", "n", "t", "e", "n", "t", "-", "T", "y", "p", "e">>

\* the lists the handlers test key.lower() against
HopByHop == { <<"h", "o", "s", "t">>,
              <<"c", "o", "n", "n", "e", "c", "t", "i", "o", "n">>,
              <<"c", "o", "n", "t", "e", "n", "t", "-", "l", "e", "n", "g", "t", "h">>,
              <<"t", "r", "a", "n", "s", "f", "e", "r", "-", "e", "n", "c", "o", "d", "i", "n", "g">> }
ODataDropped == HopByHop \cup { <<"a", "c", "c", "e", "p", "t">>,
                                <<"c", "o", "n", "t", "e", "n", "t", "-", "t", "y", "p", "e">> }

EmptyDict == [k \in {} |-> ""]

\* the dict the OData handler starts its headers from
ODataHeaders ==
    [k \in {H_Accept, H_ContentType, H_ODataVersion} |->
        IF k = H_Accept THEN "application/json;odata.metadata=minimal"
        ELSE IF k = H_ContentType THEN "application/json"
        ELSE "4.0"]

\* for key, value in req.headers.items(): if key.lower() not in dropped: headers[key] = value
copy_headers(start, inbound, dropped) ==
    LET kept == {k \in DOMAIN inbound : LowerStr(k) \notin dropped}
    IN  [k \in (DOMAIN start) \cup kept |-> IF k \in kept THEN inbound[k] ELSE start[k]]

proxy_headers(inbound) == copy_headers(EmptyDict, inbound, HopByHop)

odata_headers(inbound) == copy_headers(ODataHeaders, inbound, ODataDropped)

\* the methods whose body the handler reads
body_methods(rt) == IF rt = "proxy" THEN {"POST", "PUT", "PATCH"} ELSE {"POST"}

\* req.method.upper()
method_upper(m) ==
    CASE m = "post" -> "POST"
      [] m = "patch" -> "PATCH"
      [] OTHER -> m

NoResponse == [status |-> 0, json_error |-> FALSE, text |-> "", arg |-> NoneV]

\* func.HttpResponse(json.dumps({"error": error_msg}), status_code=..., mimetype="application/json"),
\* error_msg being text with arg interpolated
ErrorResponse(st, text, arg) == [status |-> st, json_error |-> TRUE, text |-> text, arg |-> arg]

\* func.HttpResponse(body=response.content, status_code=response.status_code, ...)
PassThrough(st) == [status |-> st, json_error |-> FALSE, text |-> "", arg |-> NoneV]

\* str(e) of a caught exception
ExcText == <<"<str(e)>">>

NoCall == [method |-> "", url |-> NoneV, headers |-> EmptyDict, body |-> "None", verify |-> FALSE]

Unchecked == [verdict |-> "unset", domain |-> NoneV]

NothingRaised == [handler |-> "none", body_read |-> FALSE]

-----------------------------------------------------------------------------
(* The inputs: allowlists, endpoints, query parameters, headers, methods *)

ApiHost == <<"a", "p", "i", ".", "e", "x", "a", "m", "p", "l", "e", ".", "c", "o", "m">>
EvilHost == <<"e", "v", "i", "l", ".", "c", "o", "m">>
TrustedHost == <<"a", ".", "t", "r", "u", "s", "t", "e", "d", ".", "c", "o", "m">>
TrustedHost2 == <<"a", ".", "b", ".", "t", "r", "u", "s", "t", "e", "d", ".", "c", "o", "m">>
TrustedBare == <<"t", "r", "u", "s", "t", "e", "d", ".", "c", "o", "m">>
TrustedPat == <<"*", ".", "t", "r", "u", "s", "t", "e", "d", ".", "c", "o", "m">>
StarPat == <<"*">>

\* ALLOWED_PATTERNS as the source sets it
SourceAllowlist ==
    << ApiHost,
       <<"s", "e", "r", "v", "i", "c", "e", "s", ".", "o", "d", "a", "t", "a", ".", "o", "r", "g">>,
       <<"j", "s", "o", "n", "p", "l", "a", "c", "e", "h", "o", "l", "d", "e", "r", ".", "*">>,
       TrustedPat,
       <<"1", "0", ".", "0", ".", "1", ".", "4">>,
       <<"l", "o", "c", "a", "l", "h", "o", "s", "t">>,
       <<"1", "2", "7", ".", "0", ".", "0", ".", "1">>,
       StarPat >>

\* ALLOWED_PATTERNS as the source's comments ask for in production: the
\* "*" entry, which matches any domain, taken out
ProductionAllowlist == SubSeq(SourceAllowlist, 1, Len(SourceAllowlist) - 1)

AllowlistConfigs == {SourceAllowlist, ProductionAllowlist}

\* the largest number of headers an inbound request carries
MaxHeaders == 1

Prefixes == {<<>>, HttpPrefix, HttpsPrefix}
\* a userinfo part spelled like an allowlisted host
UserInfo == ApiHost \o <<":", "x", "@">>
Hosts == {ApiHost, EvilHost, TrustedHost}
Tails == {<<>>, <<"/", "d", "a", "t", "a">>,
          <<":", "8", "0", "8", "0", "/", "d", "a", "t", "a">>,
          <<"/", "d", "a", "t", "a", "?", "b", "=", "2">>}
UserInfoTails == {<<>>, <<"/", "d", "a", "t", "a">>}
V6Endpoint == <<"[", ":", ":", "1", "]", ":", "8", "0", "/", "d", "a", "t", "a">>
OneBracketEndpoint == <<"[", "a">>

\* the values of req.route_params.get('endpoint')
Endpoints ==
    {NoneV, <<>>, V6Endpoint, OneBracketEndpoint}
    \cup {pre \o h \o tl : pre \in Prefixes, h \in Hosts, tl \in Tails}
    \cup {pre \o UserInfo \o EvilHost \o tl : pre \in Prefixes, tl \in UserInfoTails}

\* the values a __proxy_scheme parameter takes
Overrides == {HTTPS, <<"H", "T", "T", "P">>, <<"f", "t", "p">>, <<>>}
OtherParam == << <<"a">>, <<"1", "/", "2">> >>

\* the values of req.params
ParamChoices ==
    {<<>>, <<OtherParam>>}
    \cup {<< <<PROXY_SCHEME, v>> >> : v \in Overrides}
    \cup {<< <<PROXY_SCHEME, v>>, OtherParam >> : v \in Overrides}

HeaderNames == {H_Host, H_XCustom, H_ACCEPT, H_content_type, H_ODataVersion, H_odata_version}

\* the values of req.headers
InboundHeaderSets ==
    {[k \in ks |-> "inbound"] : ks \in {x \in SUBSET HeaderNames : Cardinality(x) <= MaxHeaders}}

\* the methods each route is registered for, as a client may spell them
Methods(rt) ==
    IF rt = "proxy" THEN {"GET", "POST", "PUT", "DELETE", "PATCH", "patch"}
    ELSE {"GET", "POST", "post"}

\* the status codes the downstream answers with
DownstreamStatuses == {200, 404}

-----------------------------------------------------------------------------
(* The code of the handlers, piece by piece *)

\* if not endpoint, with the emptiness test forgotten
endpoint_missing_none_only(e) == e = NoneV

\* if not endpoint
endpoint_missing(e) == e = NoneV \/ e = <<>>

\* the scheme override used as the client spelled it
resolve_proxy_no_lower(e, so) ==
    IF StartsWith(e, HttpPrefix) \/ StartsWith(e, HttpsPrefix)
    THEN [ok |-> TRUE, url |-> e]
    ELSE IF so # NoneV /\ so # <<>>
         THEN IF LowerStr(so) \in {HTTP, HTTPS}
              THEN [ok |-> TRUE, url |-> so \o SchemeSep \o e]
              ELSE [ok |-> FALSE, url |-> NoneV]
         ELSE [ok |-> TRUE, url |-> HttpsPrefix \o e]

\* proxy_function's "Determine scheme": the target URL, or not ok for the
\* invalid scheme; so is req.params.get('__proxy_scheme'), and
\* "elif scheme_override:" is false of None and of the empty string
resolve_proxy(e, so) ==
    IF StartsWith(e, HttpPrefix) \/ StartsWith(e, HttpsPrefix)
    THEN [ok |-> TRUE, url |-> e]
    ELSE IF so # NoneV /\ so # <<>>
         THEN IF LowerStr(so) \in {HTTP, HTTPS}
              THEN [ok |-> TRUE, url |-> LowerStr(so) \o SchemeSep \o e]
              ELSE [ok |-> FALSE, url |-> NoneV]
         ELSE [ok |-> TRUE, url |-> HttpsPrefix \o e]

\* odata_proxy_function's target URL: it reads no scheme override
resolve_odata(e) ==
    IF StartsWith(e, HttpPrefix) \/ StartsWith(e, HttpsPrefix)
    THEN [ok |-> TRUE, url |-> e]
    ELSE [ok |-> TRUE, url |-> HttpsPrefix \o e]

\* the URLs the handlers can hand to is_allowed
ResolvedUrls ==
    LET es == Endpoints \ {NoneV}
        rs == {resolve_proxy(e, so) : e \in es, so \in Overrides \cup {NoneV}}
              \cup {resolve_odata(e) : e \in es}
    IN  {r.url : r \in {x \in rs : x.ok}}

\* what is_allowed does with each of these URLs under each allowlist, worked
\* out once: whether it raises, the domain it compares, its answer
IsAllowedResults ==
    [ps \in AllowlistConfigs |->
        [u \in ResolvedUrls |->
            IF is_allowed_raises(u)
            THEN [raises |-> TRUE, domain |-> NoneV, allowed |-> FALSE]
            ELSE [raises |-> FALSE, domain |-> is_allowed_domain(u),
                  allowed |-> match_any(compile_patterns(ps), is_allowed_domain(u))]]]

\* is_allowed(url) under the allowlist in force
is_allowed_result(url) == IsAllowedResults[ALLOWED_PATTERNS][url]

\* the allowlist test with its "not" dropped
rejected_not_dropped(url) == is_allowed_result(url).allowed

\* if not is_allowed(target_url)
rejected(url) == ~is_allowed_result(url).allowed

\* {k: v for k, v in req.params.items() if k != '__proxy_scheme'}
proxy_query_params(ps) == SelectSeq(ps, LAMBDA kv : kv[1] # PROXY_SCHEME)

\* dict(req.params)
odata_query_params(ps) == ps

\* the error messages of the two handlers
MsgMissing(rt) == IF rt = "proxy" THEN "No endpoint specified" ELSE "No OData endpoint specified"
MsgNotAllowed(rt) ==
    IF rt = "proxy" THEN "Endpoint not allowed: {target_url}"
    ELSE "OData endpoint not allowed: {target_url}"
MsgInvalidScheme == "Invalid scheme: {scheme_override}. Only 'http' and 'https' are allowed."

\* every exception answered as an internal error
handle_exception_all_500(rt, exc) ==
    ErrorResponse(500, IF rt = "proxy" THEN "Internal server error: {str(e)}"
                       ELSE "Unexpected error in OData proxy: {str(e)}", ExcText)

\* the except clauses: requests.exceptions.RequestException, then Exception
handle_exception(rt, exc) ==
    IF exc = "RequestException"
    THEN ErrorResponse(502, IF rt = "proxy" THEN "Request failed: {str(e)}"
                            ELSE "OData request failed: {str(e)}", ExcText)
    ELSE ErrorResponse(500, IF rt = "proxy" THEN "Internal server error: {str(e)}"
                            ELSE "Unexpected error in OData proxy: {str(e)}", ExcText)

\* the handler returns resp
Respond(resp) ==
    /\ pc' = "Responded"
    /\ response' = resp
    /\ responses' = responses + 1
    /\ trail' = Append(trail, "Responded")

\* the handler goes on to the next stage
Advance(stage) ==
    /\ pc' = stage
    /\ trail' = Append(trail, stage)
    /\ UNCHANGED <<response, responses>>

\* a try block with the "except Exception" clause missing
Raise_uncaught(exc) ==
    /\ raised' = [raised EXCEPT !.handler = exc]
    /\ IF exc = "RequestException"
       THEN Respond(handle_exception(route, exc))
       ELSE /\ pc' = "Escaped"
            /\ trail' = Append(trail, "Escaped")
            /\ UNCHANGED <<response, responses>>

\* exc is raised inside the handler's try block
Raise(exc) ==
    /\ raised' = [raised EXCEPT !.handler = exc]
    /\ Respond(handle_exception(route, exc))

-----------------------------------------------------------------------------
(* The handlers as a state machine: one request at a time, stage by stage *)

Init ==
    /\ ALLOWED_PATTERNS \in AllowlistConfigs
    /\ pc = "idle"
    /\ route = "proxy"
    /\ endpoint = NoneV
    /\ params = <<>>
    /\ in_headers = EmptyDict
    /\ target_url = NoneV
    /\ checked = Unchecked
    /\ method = ""
    /\ headers = EmptyDict
    /\ body = "None"
    /\ call = NoCall
    /\ calls = 0
    /\ response = NoResponse
    /\ responses = 0
    /\ raised = NothingRaised
    /\ trail = <<>>
    /\ mhost = <<>>
    /\ mresult = "unset"

\* the host dispatches a request to proxy_function or odata_proxy_function
Receive ==
    /\ pc = "idle"
    /\ \E rt \in {"proxy", "odata"}, e \in Endpoints, ps \in ParamChoices :
          /\ route' = rt
          /\ endpoint' = e
          /\ params' = ps
    /\ pc' = "Received"
    /\ trail' = <<"Received">>
    /\ in_headers' = EmptyDict
    /\ target_url' = NoneV
    /\ checked' = Unchecked
    /\ method' = ""
    /\ headers' = EmptyDict
    /\ body' = "None"
    /\ call' = NoCall
    /\ calls' = 0
    /\ response' = NoResponse
    /\ responses' = 0
    /\ raised' = NothingRaised
    /\ UNCHANGED <<ALLOWED_PATTERNS, mhost, mresult>>

\* endpoint = req.route_params.get('endpoint'); if not endpoint: return 400
CheckEndpoint ==
    /\ pc = "Received"
    /\ IF endpoint_missing(endpoint)
       THEN Respond(ErrorResponse(400, MsgMissing(route), NoneV))
       ELSE Advance("Resolving")
    /\ UNCHANGED <<ALLOWED_PATTERNS, route, endpoint, params, in_headers, target_url,
                   checked, method, headers, body, call, calls, raised, mhost, mresult>>

\* the target URL is built, or the invalid scheme override answered with 400
Resolve ==
    /\ pc = "Resolving"
    /\ LET scheme_override == dict_get(params, PROXY_SCHEME)
           r == IF route = "proxy" THEN resolve_proxy(endpoint, scheme_override)
                ELSE resolve_odata(endpoint)
       IN  IF r.ok
           THEN /\ target_url' = r.url
                /\ Advance("AllowlistCheck")
           ELSE /\ Respond(ErrorResponse(400, MsgInvalidScheme, scheme_override))
                /\ UNCHANGED target_url
    /\ UNCHANGED <<ALLOWED_PATTERNS, route, endpoint, params, in_headers,
                   checked, method, headers, body, call, calls, raised, mhost, mresult>>

\* if not is_allowed(target_url): return 403; urlparse's ValueError goes to
\* the handler's "except Exception"
AllowlistCheck ==
    /\ pc = "AllowlistCheck"
    /\ IF is_allowed_result(target_url).raises
       THEN /\ checked' = [verdict |-> "raised", domain |-> NoneV]
            /\ Raise("Exception")
       ELSE /\ checked' = [verdict |-> IF is_allowed_result(target_url).allowed
                                       THEN "allowed" ELSE "rejected",
                           domain  |-> is_allowed_result(target_url).domain]
            /\ UNCHANGED raised
            /\ IF rejected(target_url)
               THEN Respond(ErrorResponse(403, MsgNotAllowed(route), target_url))
               ELSE Advance("Rewriting")
    /\ UNCHANGED <<ALLOWED_PATTERNS, route, endpoint, params, in_headers, target_url,
                   method, headers, body, call, calls, mhost, mresult>>

\* the query parameters are merged into target_url, the method is read, the
\* outbound headers are built and the body is read (a failure of get_body is
\* logged and leaves body None)
Rewrite ==
    /\ pc = "Rewriting"
    /\ \E hs \in InboundHeaderSets, m \in Methods(route), readable \in BOOLEAN :
          LET reads == method_upper(m) \in body_methods(route) IN
          /\ in_headers' = hs
          /\ target_url' = merge_query(target_url,
                               IF route = "proxy" THEN proxy_query_params(params)
                               ELSE odata_query_params(params))
          /\ method' = method_upper(m)
          /\ headers' = IF route = "proxy" THEN proxy_headers(hs) ELSE odata_headers(hs)
          /\ body' = IF reads /\ readable THEN "payload" ELSE "None"
          /\ raised' = [raised EXCEPT !.body_read = reads /\ ~readable]
    /\ Advance("Forwarding")
    /\ UNCHANGED <<ALLOWED_PATTERNS, route, endpoint, params, checked, call, calls,
                   mhost, mresult>>

\* requests.request(...) is called once; it raises a RequestException, or it
\* returns and the response is mapped, or mapping the response raises
Forward ==
    /\ pc = "Forwarding"
    /\ call' = [method |-> method, url |-> target_url, headers |-> headers,
                body |-> body, verify |-> StartsWith(target_url, HttpsPrefix)]
    /\ calls' = calls + 1
    /\ \/ Raise("RequestException")
       \/ \E st \in DownstreamStatuses : Respond(PassThrough(st)) /\ UNCHANGED raised
       \/ Raise("Exception")
    /\ UNCHANGED <<ALLOWED_PATTERNS, route, endpoint, params, in_headers, target_url,
                   checked, method, headers, body, mhost, mresult>>

\* an unexpected exception is raised while resolving, checking or rewriting
InternalFailure ==
    /\ pc \in {"Resolving", "AllowlistCheck", "Rewriting"}
    /\ Raise("Exception")
    /\ UNCHANGED <<ALLOWED_PATTERNS, route, endpoint, params, in_headers, target_url,
                   checked, method, headers, body, call, calls, mhost, mresult>>

\* the invocation is over: nothing of the request outlives it
Finish ==
    /\ pc = "Responded"
    /\ pc' = "idle"
    /\ route' = "proxy"
    /\ endpoint' = NoneV
    /\ params' = <<>>
    /\ in_headers' = EmptyDict
    /\ target_url' = NoneV
    /\ checked' = Unchecked
    /\ method' = ""
    /\ headers' = EmptyDict
    /\ body' = "None"
    /\ call' = NoCall
    /\ calls' = 0
    /\ response' = NoResponse
    /\ responses' = 0
    /\ raised' = NothingRaised
    /\ trail' = <<>>
    /\ UNCHANGED <<ALLOWED_PATTERNS, mhost, mresult>>

Handle == CheckEndpoint \/ Resolve \/ AllowlistCheck \/ Rewrite \/ Forward \/ InternalFailure

Next == Receive \/ CheckEndpoint \/ Resolve \/ AllowlistCheck \/ Rewrite \/ Forward
        \/ InternalFailure \/ Finish

Spec == Init /\ [][Next]_vars

\* a handler that was invoked runs on: its code is sequential, without loops
\* but those over the finite header and parameter collections, and the one
\* blocking call it makes is given a timeout
FairSpec == Spec /\ WF_vars(Handle)

-----------------------------------------------------------------------------
(* The matcher on its own: is_allowed applied to host strings and pattern  *)
(* lists over a small alphabet                                             *)

MaxHostLen == 2
MaxPatLen == 2
MaxPatterns == 1

Alphabet == {"a", "A", ".", "*"}

Strings(n) == UNION {[1..k -> Alphabet] : k \in 0..n}

HostStrings == Strings(MaxHostLen) \cup {TrustedHost, TrustedHost2, TrustedBare}

PatternLists ==
    UNION {[1..k -> Strings(MaxPatLen)] : k \in 0..MaxPatterns}
    \cup {<<TrustedPat>>, <<<<"a">>, TrustedPat>>, SourceAllowlist, ProductionAllowlist}

MatchInit ==
    /\ ALLOWED_PATTERNS \in PatternLists
    /\ mhost \in HostStrings
    /\ mresult = "unset"
    /\ pc = "idle"
    /\ route = "proxy"
    /\ endpoint = NoneV
    /\ params = <<>>
    /\ in_headers = EmptyDict
    /\ target_url = NoneV
    /\ checked = Unchecked
    /\ method = ""
    /\ headers = EmptyDict
    /\ body = "None"
    /\ call = NoCall
    /\ calls = 0
    /\ response = NoResponse
    /\ responses = 0
    /\ raised = NothingRaised
    /\ trail = <<>>

\* is_allowed(mhost) is evaluated
ApplyMatcher ==
    /\ mresult = "unset"
    /\ mresult' = IF is_allowed(mhost) THEN "allowed" ELSE "rejected"
    /\ UNCHANGED <<ALLOWED_PATTERNS, pc, route, endpoint, params, in_headers, target_url,
                   checked, method, headers, body, call, calls, response, responses,
                   raised, trail, mhost>>

MatchNext == ApplyMatcher

SpecMatch == MatchInit /\ [][MatchNext]_vars

-----------------------------------------------------------------------------
(* What the claims speak of, stated apart from the code *)

\* pattern p, read as a glob, matches the whole of h: "*" stands for zero or
\* more characters, every other character for itself, letter case ignored
RECURSIVE GlobMatch(_, _)
GlobMatch(p, h) ==
    IF p = <<>> THEN h = <<>>
    ELSE IF Head(p) = "*"
         THEN \E k \in 0..Len(h) : GlobMatch(Tail(p), SubSeq(h, k + 1, Len(h)))
         ELSE /\ h # <<>>
              /\ LowerChar(Head(p)) = LowerChar(Head(h))
              /\ GlobMatch(Tail(p), Tail(h))

SomePatternMatches(h) ==
    \E i \in 1..Len(ALLOWED_PATTERNS) : GlobMatch(ALLOWED_PATTERNS[i], h)

\* the raw endpoint carries its own scheme
ExplicitScheme(e) == StartsWith(e, HttpPrefix) \/ StartsWith(e, HttpsPrefix)

\* the request's __proxy_scheme parameter (None when it has none)
Override == dict_get(params, PROXY_SCHEME)

ValidOverride(s) == s # NoneV /\ LowerStr(s) \in {HTTP, HTTPS}

\* needle occurs in s
IsInfix(needle, s) ==
    \E i \in 1..(Len(s) - Len(needle) + 1) : SubSeq(s, i, i + Len(needle) - 1) = needle

\* the host a request for url goes to: the authority, without the userinfo
\* before "@" and without the ":port" suffix
AddressedHost(url) ==
    LET start == FirstOf(url, {"/"}, 1) + 2
        stop == FirstOf(url, {"/", "?", "#"}, start)
        authority == SubSeq(url, start, stop - 1)
        ats == {i \in 1..Len(authority) : authority[i] = "@"}
        hostport == IF ats = {} THEN authority
                    ELSE SubSeq(authority, (CHOOSE i \in ats : \A j \in ats : j <= i) + 1,
                                Len(authority))
    IN  IF hostport # <<>> /\ hostport[1] = "["
        THEN SubSeq(hostport, 1, FirstOf(hostport, {"]"}, 1))
        ELSE BeforeFirst(hostport, ":")

StageRank(st) ==
    CASE st = "Received" -> 1
      [] st = "Resolving" -> 2
      [] st = "AllowlistCheck" -> 3
      [] st = "Rewriting" -> 4
      [] st = "Forwarding" -> 5
      [] st = "Responded" -> 6
      [] OTHER -> 0

-----------------------------------------------------------------------------
(* The claims *)

\* C1: a request whose target URL is_allowed rejects is answered 403 with a
\* JSON error body naming that URL, and no outbound call is made for it; an
\* outbound call is made only after is_allowed approved the target URL.
C1_RejectedIs403AndNeverForwarded ==
    /\ checked.verdict = "rejected" =>
          /\ pc = "Responded"
          /\ response = ErrorResponse(403, MsgNotAllowed(route), target_url)
          /\ target_url # NoneV
          /\ ~SomePatternMatches(checked.domain)
          /\ calls = 0
    /\ calls > 0 => checked.verdict = "allowed"

C1_Witness ==
    /\ route = "proxy"
    /\ endpoint = EvilHost \o <<"/", "d", "a", "t", "a">>
    /\ checked.verdict = "rejected"
    /\ response.status = 403
    /\ response.arg = HttpsPrefix \o EvilHost \o <<"/", "d", "a", "t", "a">>

\* C2: is_allowed accepts a host exactly when some pattern of the list, read
\* as a glob, matches the whole of it case-insensitively; the empty list
\* accepts nothing, a list holding "*" accepts everything, and
\* ["*.trusted.com"] accepts a.trusted.com and a.b.trusted.com but not
\* trusted.com.
C2_MatcherIsGlobMatch ==
    mresult # "unset" =>
        /\ (mresult = "allowed") <=> SomePatternMatches(mhost)
        /\ ALLOWED_PATTERNS = <<>> => mresult = "rejected"
        /\ (\E i \in 1..Len(ALLOWED_PATTERNS) : ALLOWED_PATTERNS[i] = StarPat)
              => mresult = "allowed"
        /\ ALLOWED_PATTERNS = <<TrustedPat>> =>
              /\ mhost \in {TrustedHost, TrustedHost2} => mresult = "allowed"
              /\ mhost = TrustedBare => mresult = "rejected"

C2_Witness ==
    /\ ALLOWED_PATTERNS = <<TrustedPat>>
    /\ mhost = TrustedHost2
    /\ mresult = "allowed"

\* C3: on the generic route the resolved URL is the raw endpoint verbatim when
\* it starts with http:// or https://, else lower(s)://e when the override s is
\* http or https in any letter case, else https://e when there is no override;
\* none of these three cases is answered as an invalid scheme.
C3_Resolution ==
    /\ (route = "proxy" /\ pc = "AllowlistCheck") =>
          /\ ExplicitScheme(endpoint) => target_url = endpoint
          /\ (~ExplicitScheme(endpoint) /\ ValidOverride(Override)) =>
                target_url = LowerStr(Override) \o SchemeSep \o endpoint
          /\ (~ExplicitScheme(endpoint) /\ Override = NoneV) =>
                target_url = HttpsPrefix \o endpoint
    /\ (route = "proxy" /\ response.text = MsgInvalidScheme) =>
          ~(ExplicitScheme(endpoint) \/ ValidOverride(Override) \/ Override = NoneV)
    /\ (route = "proxy" /\ pc = "AllowlistCheck" /\ endpoint = ApiHost /\ Override = NoneV)
          => target_url = HttpsPrefix \o ApiHost

C3_Witness ==
    /\ route = "proxy"
    /\ pc = "AllowlistCheck"
    /\ endpoint = HttpPrefix \o ApiHost
    /\ Override = HTTPS
    /\ target_url = HttpPrefix \o ApiHost

\* C4: the URL of the outbound call never carries the __proxy_scheme
\* parameter, on either route.
C4_SchemeParamNeverForwarded ==
    calls > 0 => ~IsInfix(PROXY_SCHEME \o <<"=">>, call.url)

\* C5: a request whose endpoint has no scheme and whose __proxy_scheme is
\* present but is not http or https (the empty string included) ends with 400
\* and a JSON error body, makes no outbound call and is never resolved to a
\* default scheme, on either route.
C5_InvalidOverrideIs400 ==
    ( /\ pc \in {"AllowlistCheck", "Rewriting", "Forwarding", "Responded"}
      /\ ~endpoint_missing(endpoint)
      /\ ~ExplicitScheme(endpoint)
      /\ Override # NoneV
      /\ ~ValidOverride(Override)
      /\ raised.handler = "none" ) =>
        /\ pc = "Responded"
        /\ response.status = 400
        /\ response.json_error
        /\ target_url = NoneV
        /\ calls = 0

\* C6: every request moves forward through Received, Resolving,
\* AllowlistCheck, Rewriting, Forwarding without revisiting a stage (trail
\* keeps the stages entered), makes at most one outbound call, and ends by
\* returning exactly one response; no exception leaves the handler.
C6_Lifecycle ==
    /\ [](/\ pc \in {"idle", "Received", "Resolving", "AllowlistCheck", "Rewriting",
                     "Forwarding", "Responded"}
          /\ calls <= 1
          /\ responses = (IF pc = "Responded" THEN 1 ELSE 0)
          /\ (pc = "Responded") <=> (response # NoResponse)
          /\ pc # "idle" => trail[Len(trail)] = pc
          /\ \A i, j \in 1..Len(trail) :
                i < j => /\ StageRank(trail[i]) > 0
                         /\ StageRank(trail[i]) < StageRank(trail[j]))
    /\ (pc = "Received") ~> (pc = "Responded")

C6_Witness ==
    /\ pc = "Responded"
    /\ trail = <<"Received", "Resolving", "AllowlistCheck", "Rewriting", "Forwarding",
                 "Responded">>
    /\ raised.handler = "Exception"
    /\ calls = 1
    /\ responses = 1

\* C7: a request whose endpoint capture is missing or empty is answered 400
\* with a JSON error body before any URL is built, any allowlist test is made
\* or any outbound call is issued, whatever else the request holds.
C7_MissingEndpointIs400 ==
    ((endpoint = NoneV \/ endpoint = <<>>) /\ pc \notin {"idle", "Received"}) =>
        /\ pc = "Responded"
        /\ response = ErrorResponse(400, MsgMissing(route), NoneV)
        /\ trail = <<"Received", "Responded">>
        /\ target_url = NoneV
        /\ checked = Unchecked
        /\ calls = 0
        /\ call = NoCall

C7_Witness ==
    /\ route = "odata"
    /\ endpoint = <<>>
    /\ Override = <<"f", "t", "p">>
    /\ pc = "Responded"
    /\ response.status = 400

\* C8: on the OData route the outbound headers carry exactly the forced
\* Accept, Content-Type and OData-Version values: no inbound header, in any
\* letter case, overrides one of them or adds a second header of that name.
C8_ODataHeadersForced ==
    (route = "odata" /\ calls > 0) =>
        \A forced \in DOMAIN ODataHeaders :
            /\ forced \in DOMAIN call.headers
            /\ \A k \in DOMAIN call.headers :
                  LowerStr(k) = LowerStr(forced) =>
                      k = forced /\ call.headers[k] = ODataHeaders[forced]

\* C9: a transport failure of the one outbound call is answered 502 with a
\* JSON error body and the call is not retried; any other failure is answered
\* 500 with a JSON error body; a failure to read the inbound body is neither:
\* the request is forwarded with no body.
C9_FailureMapping ==
    /\ calls <= 1
    /\ raised.handler = "RequestException" =>
          /\ pc = "Responded"
          /\ response.status = 502
          /\ response.json_error
          /\ calls = 1
    /\ raised.handler = "Exception" =>
          /\ pc = "Responded"
          /\ response.status = 500
          /\ response.json_error
    /\ raised.body_read =>
          /\ pc \in {"Forwarding", "Responded"}
          /\ body = "None"
          /\ pc = "Responded" => (calls = 1 /\ call.body = "None")
          /\ (pc = "Responded" /\ raised.handler = "none") => ~response.json_error

C9_Witness ==
    /\ pc = "Responded"
    /\ raised.body_read
    /\ raised.handler = "RequestException"
    /\ response.status = 502
    /\ calls = 1

\* C10: the host the outbound call goes to is the string is_allowed compared
\* with the patterns, and so matches a pattern of the allowlist.
C10_AddressedHostIsCheckedHost ==
    calls > 0 =>
        /\ AddressedHost(call.url) = checked.domain
        /\ SomePatternMatches(AddressedHost(call.url))

=============================================================================
